---- MODULE Spec2Model ----
(* Model of the exkaldi-rt online decoder: the chunk protocol reader           *)
(* ExkaldiDecodableOnline::RecieveFrames, the likelihood window                *)
(* (LogLikelihood), and the session loop of the decoder binary's main().       *)
(* The input stream is the environment. While it is open, a poll finds a       *)
(* whitespace character or a chunk on it, or the process waits inside          *)
(* cin.peek() for as long as the writer is silent (no step). When the input    *)
(* has ended peek() gives EOF and sets the eofbit of std::cin, which nothing   *)
(* in the program clears: from then on every poll is an idle poll. A chunk is  *)
(* written to the stream as a whole, so the blocking `cin >>` reads that       *)
(* follow the flag find their tokens.                                          *)
EXTENDS Integers, Sequences, FiniteSets, TLC

\* ---------------------------------------------------------------- bounds
MaxChunks == 3      \* headers other than -3 the stream delivers in one run
MaxWs == 1          \* whitespace characters counted between two tokens
MaxDrain == 1       \* tokens other than "over" delivered to WaitForOver
ChunkFrames == 2    \* --chunk-frames (opts_.chunk_frames)
NumPdfs == 2        \* trans_model_.NumPdfs()
NBests == 1         \* --n-bests
Timeout == 3        \* --timeout
Timescale == 2      \* --timescale

Vals == 1..3                           \* likelihood values on the wire
PayloadSeeds == {0, 1}                 \* the payloads offered per frame count
OtherFlags == {0, 5}                   \* header flags outside {-1,-2,-3}
IdleCap == 2 * (Timeout + Timescale) + 1   \* idle is kept modulo IdleCap; the program stays below Timeout + Timescale
FrameCounts == (0 - 1)..(ChunkFrames + 1)  \* declared frame counts
TransitionIds == 1..3                  \* transition ids the engine queries
Tokens == {"over", "other"}            \* tokens offered to WaitForOver
AcousticScales == {1, 2}               \* --acoustic-scale
LmScales == {1, 2}                     \* --lm-scale
Costs == 1..2                          \* graph and acoustic cost of a result graph

VARIABLES
  pc,                 \* position of main(): recv, poll, ret, advance, finish, drain, done, aborted
  begin_frame_,       \* ExkaldiDecodableOnline fields
  last_frame_id_,
  frames_ready_,
  available_frames_,
  loglikes_,
  termination_,
  endpoint_,
  num_frames_decoded, \* decoder_.NumFramesDecoded()
  counter,            \* local of RecieveFrames / WaitForOver
  flag,               \* main's `bool flag`
  segover,            \* main's `bool segover`
  hdr,                \* locals flag, frames of RecieveFrames: the header last read
  out,                \* lines written to stdout
  err,                \* fatal error that ended the process, or "none"
  consumed,           \* tokens taken from stdin
  skipped,            \* whitespace characters ignored since the last token
  nheaders,           \* headers other than -3 read so far
  drained,            \* tokens other than "over" read by WaitForOver
  lastChunk,          \* payload of the chunk stored last, in wire order
  prevFrames,         \* frame count of the previous chunk of this utterance
  finalized,          \* number of FinalizeDecoding calls so far
  utt,                \* number of sessions constructed before the current one
  idle,               \* idle time of the current read attempt: since RecieveFrames or
                      \* WaitForOver was called, or since WaitForOver read its last token
  singal,             \* local `singal` of WaitForOver: the token read last
  determinize_lattice, \* config_.decoder_opts.determinize_lattice
  emit,               \* arguments and result of EmitFinalResult / LogLikelihood
                      \* when they are applied on their own (SpecEmit)
  cout,               \* std::cout: buf is the text in the stream buffer, tail the
                      \* text delivered to stdout after the last newline
  eofbit              \* eofbit of std::cin: a peek() has met the end of the input

vars == <<pc, begin_frame_, last_frame_id_, frames_ready_, available_frames_,
          loglikes_, termination_, endpoint_, num_frames_decoded, counter,
          flag, segover, hdr, out, err, consumed, skipped, nheaders, drained,
          lastChunk, prevFrames, finalized, utt, idle, singal,
          determinize_lattice, emit, cout, eofbit>>

decodable == <<begin_frame_, last_frame_id_, frames_ready_, available_frames_,
               loglikes_, termination_, endpoint_>>
history == <<lastChunk, prevFrames, finalized>>
waits == <<idle, singal>>
static == <<determinize_lattice, emit>>

\* ------------------------------------------------------- pure functions
\* trans_model_.TransitionIdToPdf: several transition ids share a pdf.
TransitionIdToPdf(index) == IF index = 1 THEN 0 ELSE 1

\* loglikes_.Resize(chunk_frames, pdf_ids_); loglikes_.SetZero()
ZeroMatrix == [i \in 0..(ChunkFrames - 1) |-> [j \in 0..(NumPdfs - 1) |-> 0]]

\* Mutant: the payload taken column by column.
StoreChunk_ColumnMajor(m, frames, payload) ==
  [i \in 0..(ChunkFrames - 1) |->
    [j \in 0..(NumPdfs - 1) |->
      IF i < frames THEN payload[j * frames + i + 1] ELSE m[i][j]]]

\* for i < frames, for j < pdf_ids_: cin >> loglikes_(i,j)
StoreChunk(m, frames, payload) ==
  [i \in 0..(ChunkFrames - 1) |->
    [j \in 0..(NumPdfs - 1) |->
      IF i < frames THEN payload[i * NumPdfs + j + 1] ELSE m[i][j]]]

\* The payloads offered for a chunk of `frames` frames: frames * pdf_ids_
\* values in wire order, neighbouring positions carrying different values.
Payloads(frames) ==
  {[p \in 1..(frames * NumPdfs) |-> ((p + s) % 3) + 1] : s \in PayloadSeeds}

ArrivedLastChunk == last_frame_id_ # (0 - 1)
IsTermination == termination_ = TRUE
IsEndpoint == endpoint_
IsLastFrame(frame) == frame = last_frame_id_
NumFramesReady == frames_ready_

\* KALDI_ASSERT(frame >= begin_frame_ && frame < begin_frame_ + available_frames_)
InWindow(frame) ==
  frame >= begin_frame_ /\ frame < begin_frame_ + available_frames_

\* Mutant: the score is multiplied by the acoustic scale.
LogLikelihood_Scaled(frame, index) ==
  IF InWindow(frame)
  THEN <<"ok", emit.acwt * loglikes_[frame - begin_frame_][TransitionIdToPdf(index)]>>
  ELSE <<"OutOfWindow">>

\* The result is <<"ok", score>>, or <<"OutOfWindow">> when the assertion fails.
LogLikelihood(frame, index) ==
  IF InWindow(frame)
  THEN <<"ok", loglikes_[frame - begin_frame_][TransitionIdToPdf(index)]>>
  ELSE <<"OutOfWindow">>

\* Mutant: the window start is not advanced.
ShiftedBegin_Stale == begin_frame_

\* Mutant: the window start advances by a full chunk.
ShiftedBegin_FullChunk == begin_frame_ + ChunkFrames

\* begin_frame_ += available_frames_
ShiftedBegin == begin_frame_ + available_frames_

\* Mutant: the empty result is chosen by the frame count of the last header.
NoFramesDecoded_LastChunk == Len(hdr) >= 2 /\ hdr[2] = 0

\* Mutant: the empty result is never chosen.
NoFramesDecoded_Never == FALSE

\* decoder.NumFramesDecoded() == 0
NoFramesDecoded == num_frames_decoded = 0

\* Mutant: the lower bound of the activity assertion is dropped.
ValidActivityFrames_NoLower(frames) == frames <= ChunkFrames

\* KALDI_ASSERT(frames > 0 && frames <= opts_.chunk_frames)
ValidActivityFrames(frames) == frames > 0 /\ frames <= ChunkFrames

\* KALDI_ASSERT(frames >= 0 && frames <= opts_.chunk_frames)
ValidEndpointFrames(frames) == frames >= 0 /\ frames <= ChunkFrames

\* The text of a message as it is written to std::cout, without the newline
\* that main() writes after it. A text is represented by its prefix tokens:
\* the words that follow a -1 are left out, so a -1 stands for a candidate of
\* any number of words.
PartialLine == <<0 - 1>>
FinalLine(n) == <<0 - 2>> \o [k \in 1..n |-> 0 - 1]
EmptyFinalLine == <<0 - 2>>
TerminationLine == <<0 - 3>>

\* The standard output: `out` holds the complete lines delivered to the reader.
StdOut == [out |-> out, buf |-> cout.buf, tail |-> cout.tail]
NoText == [buf |-> <<>>, tail |-> <<>>]

\* std::cout << text: the text enters the stream buffer, and every time the
\* buffer fills up its content is handed to stdout. How much has been handed
\* on when `<<` returns depends on the number of bytes written and on the size
\* of the buffer, which the representation of a text leaves out: `handed` is
\* the number of tokens of the buffered text that have reached stdout (0 for a
\* text that fits into the buffer).
Put(s, text, handed) ==
  LET written == s.buf \o text
  IN  [s EXCEPT !.tail = @ \o SubSeq(written, 1, handed),
                !.buf = SubSeq(written, handed + 1, Len(written))]
\* std::cout.flush(): what is buffered reaches stdout
Flush(s) == [s EXCEPT !.tail = @ \o s.buf, !.buf = <<>>]
\* std::cout << std::endl: a newline is written and the stream is flushed, so
\* the text since the last newline reaches the reader as one complete line
Endl(s) == [out |-> Append(s.out, s.tail \o s.buf), buf |-> <<>>, tail |-> <<>>]

SetStdOut(s) ==
  /\ out' = s.out
  /\ cout' = [buf |-> s.buf, tail |-> s.tail]

\* Mutant: the message is flushed without its newline.
Emit_NoEndl(text) ==
  \E handed \in 0..Len(cout.buf \o text) :
    SetStdOut(Flush(Put(StdOut, text, handed)))

\* A message of main(): the text, std::endl, std::cout.flush()
Emit(text) ==
  \E handed \in 0..Len(cout.buf \o text) :
    SetStdOut(Flush(Endl(Put(StdOut, text, handed))))

\* ------------------------------------------------------------------ Init
InitState ==
  /\ pc = "recv"
  /\ begin_frame_ = 0
  /\ last_frame_id_ = 0 - 1
  /\ frames_ready_ = 0
  /\ available_frames_ = 0
  /\ loglikes_ = ZeroMatrix
  /\ termination_ = FALSE
  /\ endpoint_ = FALSE
  /\ num_frames_decoded = 0
  /\ counter = 0
  /\ flag = FALSE
  /\ segover = FALSE
  /\ hdr = <<>>
  /\ out = <<>>
  /\ err = "none"
  /\ consumed = 0
  /\ skipped = 0
  /\ nheaders = 0
  /\ drained = 0
  /\ lastChunk = <<>>
  /\ prevFrames = 0
  /\ finalized = 0
  /\ utt = 0
  /\ idle = 0
  /\ singal = ""
  /\ cout = NoText
  /\ eofbit = FALSE

\* The arguments main() passes to EmitFinalResult are not followed in the
\* session loop, whose Final Result lines carry only their candidate count.
NoEmit ==
  [acwt |-> 1, lmwt |-> 1, wbi |-> FALSE, alignOk |-> FALSE,
   clat |-> [graph |-> 0, ac |-> 0, aligned |-> FALSE],
   result |-> <<>>, query |-> <<>>, score |-> <<>>]

\* main(): dr_config.determinize_lattice = true
Init ==
  /\ InitState
  /\ determinize_lattice = TRUE
  /\ emit = NoEmit

\* The session class constructed with either value of determinize_lattice.
InitCfg ==
  /\ InitState
  /\ determinize_lattice \in BOOLEAN
  /\ emit = NoEmit

\* Mutant: the new session keeps the frame counters of the previous one.
NewSession_KeepWindow ==
  /\ begin_frame_' = begin_frame_
  /\ last_frame_id_' = 0 - 1
  /\ frames_ready_' = frames_ready_
  /\ available_frames_' = available_frames_
  /\ loglikes_' = ZeroMatrix
  /\ termination_' = FALSE
  /\ endpoint_' = FALSE
  /\ num_frames_decoded' = 0
  /\ lastChunk' = <<>>
  /\ prevFrames' = 0
  /\ utt' = utt + 1

\* ExkaldiSingalUtteranceDecoder decoder(config, trans_model, *decode_fst)
NewSession ==
  /\ begin_frame_' = 0
  /\ last_frame_id_' = 0 - 1
  /\ frames_ready_' = 0
  /\ available_frames_' = 0
  /\ loglikes_' = ZeroMatrix
  /\ termination_' = FALSE
  /\ endpoint_' = FALSE
  /\ num_frames_decoded' = 0
  /\ lastChunk' = <<>>
  /\ prevFrames' = 0
  /\ utt' = utt + 1

Abort(e) == err' = e /\ pc' = "aborted"

\* ------------------------------------------------- RecieveFrames
\* Mutant: the call polls even when the last chunk has arrived.
CallRecieveFrames_NoEarlyReturn ==
  /\ pc = "recv"
  /\ counter' = 0
  /\ pc' = "poll"
  /\ flag' = flag
  /\ UNCHANGED <<decodable, num_frames_decoded, segover, hdr, out, err,
                 consumed, skipped, nheaders, drained, history, utt>>
  /\ idle' = 0
  /\ UNCHANGED <<singal, static, eofbit, cout>>

\* bool flag = decoder.RecieveFrames(TIMEOUT, TIMESCALE): entry of the call
CallRecieveFrames ==
  /\ pc = "recv"
  /\ IF ArrivedLastChunk
     THEN /\ flag' = FALSE
          /\ pc' = "ret"
          /\ counter' = counter
     ELSE /\ counter' = 0
          /\ pc' = "poll"
          /\ flag' = flag
  /\ UNCHANGED <<decodable, num_frames_decoded, segover, hdr, out, err,
                 consumed, skipped, nheaders, drained, history, utt>>
  /\ idle' = 0
  /\ UNCHANGED <<singal, static, eofbit, cout>>

\* Mutant: the elapsed time is assigned, not accumulated.
PollIdle_Assign ==
  /\ pc = "poll"
  /\ eofbit' = TRUE
  /\ counter' = Timescale
  /\ IF counter' >= Timeout
     THEN Abort("StreamTimeout")
     ELSE pc' = pc /\ err' = err
  /\ UNCHANGED <<decodable, num_frames_decoded, flag, segover, hdr, out,
                 consumed, skipped, nheaders, drained, history, utt>>
  /\ idle' = (idle + Timescale) % IdleCap
  /\ UNCHANGED <<singal, static, cout>>

\* cin.peek() == EOF
PollIdle ==
  /\ pc = "poll"
  /\ eofbit' = TRUE
  /\ counter' = counter + Timescale
  /\ IF counter' >= Timeout
     THEN Abort("StreamTimeout")
     ELSE pc' = pc /\ err' = err
  /\ UNCHANGED <<decodable, num_frames_decoded, flag, segover, hdr, out,
                 consumed, skipped, nheaders, drained, history, utt>>
  /\ idle' = (idle + Timescale) % IdleCap
  /\ UNCHANGED <<singal, static, cout>>

\* cin.peek() is ' ' or '\n': cin.ignore()
PollSkipWhitespace ==
  /\ pc = "poll"
  /\ ~eofbit
  /\ skipped < MaxWs
  /\ skipped' = skipped + 1
  /\ UNCHANGED <<pc, decodable, num_frames_decoded, counter, flag, segover,
                 hdr, out, err, consumed, nheaders, drained, history, utt>>
  /\ UNCHANGED <<waits, static, eofbit, cout>>

\* Mutant: the -3 header also marks the last chunk.
ReadTermination_MarksLast ==
  /\ pc = "poll"
  /\ ~eofbit
  /\ begin_frame_' = ShiftedBegin
  /\ hdr' = <<0 - 3>>
  /\ consumed' = consumed + 1
  /\ termination_' = TRUE
  /\ last_frame_id_' = frames_ready_
  /\ flag' = FALSE
  /\ pc' = "ret"
  /\ UNCHANGED <<frames_ready_, available_frames_, loglikes_,
                 endpoint_, num_frames_decoded, counter, segover, out, err,
                 nheaders, drained, history, utt>>
  /\ UNCHANGED <<waits, static, eofbit, cout>>
  /\ skipped' = 0

\* flag == -3
ReadTermination ==
  /\ pc = "poll"
  /\ ~eofbit
  /\ begin_frame_' = ShiftedBegin
  /\ hdr' = <<0 - 3>>
  /\ consumed' = consumed + 1
  /\ termination_' = TRUE
  /\ flag' = FALSE
  /\ pc' = "ret"
  /\ UNCHANGED <<last_frame_id_, frames_ready_, available_frames_, loglikes_,
                 endpoint_, num_frames_decoded, counter, segover, out, err,
                 nheaders, drained, history, utt>>
  /\ UNCHANGED <<waits, static, eofbit, cout>>
  /\ skipped' = 0

\* Mutant: an endpoint chunk with frames is stored like an activity chunk.
ReadEndpoint_NotTerminal(frames, payload) ==
  /\ pc = "poll"
  /\ ~eofbit
  /\ nheaders < MaxChunks
  /\ nheaders' = nheaders + 1
  /\ begin_frame_' = ShiftedBegin
  /\ hdr' = <<0 - 2, frames>>
  /\ IF frames > 0
     THEN IF ~ValidEndpointFrames(frames)
          THEN /\ Abort("InvalidChunkSize")
               /\ consumed' = consumed + 2
               /\ UNCHANGED <<last_frame_id_, frames_ready_, available_frames_,
                              loglikes_, endpoint_, flag, lastChunk,
                              prevFrames>>
          ELSE /\ loglikes_' = StoreChunk(loglikes_, frames, payload)
               /\ lastChunk' = payload
               /\ prevFrames' = frames
               /\ consumed' = consumed + 2 + frames * NumPdfs
               /\ frames_ready_' = frames_ready_ + frames
               /\ available_frames_' = frames
               /\ flag' = TRUE
               /\ pc' = "ret"
               /\ UNCHANGED <<endpoint_, last_frame_id_, err>>
     ELSE /\ endpoint_' = TRUE
          /\ last_frame_id_' = frames_ready_
          /\ flag' = FALSE
          /\ pc' = "ret"
          /\ consumed' = consumed + 2
          /\ UNCHANGED <<frames_ready_, available_frames_, loglikes_, err,
                         lastChunk, prevFrames>>
  /\ UNCHANGED <<termination_, num_frames_decoded, counter, segover, out,
                 drained, finalized, utt>>
  /\ UNCHANGED <<waits, static, eofbit, cout>>
  /\ skipped' = 0

\* flag == -2
ReadEndpoint(frames, payload) ==
  /\ pc = "poll"
  /\ ~eofbit
  /\ nheaders < MaxChunks
  /\ nheaders' = nheaders + 1
  /\ begin_frame_' = ShiftedBegin
  /\ hdr' = <<0 - 2, frames>>
  /\ IF frames > 0
     THEN IF ~ValidEndpointFrames(frames)
          THEN /\ Abort("InvalidChunkSize")
               /\ consumed' = consumed + 2
               /\ UNCHANGED <<last_frame_id_, frames_ready_, available_frames_,
                              loglikes_, endpoint_, flag, lastChunk,
                              prevFrames>>
          ELSE /\ loglikes_' = StoreChunk(loglikes_, frames, payload)
               /\ lastChunk' = payload
               /\ prevFrames' = frames
               /\ consumed' = consumed + 2 + frames * NumPdfs
               /\ frames_ready_' = frames_ready_ + frames
               /\ available_frames_' = frames
               /\ endpoint_' = TRUE
               /\ last_frame_id_' = frames_ready_'
               /\ flag' = TRUE
               /\ pc' = "ret"
               /\ err' = err
     ELSE /\ endpoint_' = TRUE
          /\ last_frame_id_' = frames_ready_
          /\ flag' = FALSE
          /\ pc' = "ret"
          /\ consumed' = consumed + 2
          /\ UNCHANGED <<frames_ready_, available_frames_, loglikes_, err,
                         lastChunk, prevFrames>>
  /\ UNCHANGED <<termination_, num_frames_decoded, counter, segover, out,
                 drained, finalized, utt>>
  /\ UNCHANGED <<waits, static, eofbit, cout>>
  /\ skipped' = 0

\* flag == -1
ReadActivity(frames, payload) ==
  /\ pc = "poll"
  /\ ~eofbit
  /\ nheaders < MaxChunks
  /\ nheaders' = nheaders + 1
  /\ begin_frame_' = ShiftedBegin
  /\ hdr' = <<0 - 1, frames>>
  /\ IF ~ValidActivityFrames(frames)
     THEN /\ Abort("InvalidChunkSize")
          /\ consumed' = consumed + 2
          /\ UNCHANGED <<frames_ready_, available_frames_, loglikes_, flag,
                         lastChunk, prevFrames>>
     ELSE /\ loglikes_' = StoreChunk(loglikes_, frames, payload)
          /\ lastChunk' = payload
          /\ prevFrames' = frames
          /\ consumed' = consumed + 2 + frames * NumPdfs
          /\ frames_ready_' = frames_ready_ + frames
          /\ available_frames_' = frames
          /\ flag' = TRUE
          /\ pc' = "ret"
          /\ err' = err
  /\ UNCHANGED <<last_frame_id_, termination_, endpoint_, num_frames_decoded,
                 counter, segover, out, drained, finalized, utt>>
  /\ UNCHANGED <<waits, static, eofbit, cout>>
  /\ skipped' = 0

\* Mutant: an unknown flag is logged and the loop keeps polling.
ReadUnknownFlag_Continue(f) ==
  /\ pc = "poll"
  /\ ~eofbit
  /\ nheaders < MaxChunks
  /\ nheaders' = nheaders + 1
  /\ begin_frame_' = ShiftedBegin
  /\ hdr' = <<f>>
  /\ consumed' = consumed + 1
  /\ UNCHANGED <<pc, err, last_frame_id_, frames_ready_, available_frames_,
                 loglikes_, termination_, endpoint_, num_frames_decoded,
                 counter, flag, segover, out, drained, history, utt>>
  /\ UNCHANGED <<waits, static, eofbit, cout>>
  /\ skipped' = 0

\* any other flag: KALDI_ERR
ReadUnknownFlag(f) ==
  /\ pc = "poll"
  /\ ~eofbit
  /\ nheaders < MaxChunks
  /\ nheaders' = nheaders + 1
  /\ begin_frame_' = ShiftedBegin
  /\ hdr' = <<f>>
  /\ consumed' = consumed + 1
  /\ Abort("UnknownFlag")
  /\ UNCHANGED <<last_frame_id_, frames_ready_, available_frames_, loglikes_,
                 termination_, endpoint_, num_frames_decoded, counter, flag,
                 segover, out, drained, history, utt>>
  /\ UNCHANGED <<waits, static, eofbit, cout>>
  /\ skipped' = 0

\* ------------------------------------------------------ session loop
\* if (flag) { ... } else { break; }
BranchOnFlag ==
  /\ pc = "ret"
  /\ pc' = IF flag THEN "advance" ELSE "finish"
  /\ UNCHANGED <<decodable, num_frames_decoded, counter, flag, segover, hdr,
                 out, err, consumed, skipped, nheaders, drained, history, utt>>
  /\ UNCHANGED <<waits, static, eofbit, cout>>

\* decoder_.AdvanceDecoding(&decodable_): one frame of the engine, which asks
\* LogLikelihood for the frame it is about to decode.
AdvanceFrame(index) ==
  /\ pc = "advance"
  /\ num_frames_decoded < NumFramesReady
  /\ IF LogLikelihood(num_frames_decoded, index) = <<"OutOfWindow">>
     THEN Abort("OutOfWindow") /\ num_frames_decoded' = num_frames_decoded
     ELSE /\ num_frames_decoded' = num_frames_decoded + 1
          /\ pc' = pc
          /\ err' = err
  /\ UNCHANGED <<decodable, counter, flag, segover, hdr, out, consumed,
                 skipped, nheaders, drained, history, utt>>
  /\ UNCHANGED <<waits, static, eofbit, cout>>

\* Mutant: the partial result is emitted before the boundary tests.
AfterAdvance_EmitFirst(detected) ==
  /\ pc = "advance"
  /\ num_frames_decoded = NumFramesReady
  /\ Emit(PartialLine)
  /\ IF ArrivedLastChunk \/ IsEndpoint
     THEN /\ pc' = "finish"
          /\ UNCHANGED segover
     ELSE /\ segover' = detected
          /\ pc' = IF detected THEN "finish" ELSE "recv"
  /\ UNCHANGED <<decodable, num_frames_decoded, counter, flag, hdr, err,
                 consumed, skipped, nheaders, drained, history, utt>>
  /\ UNCHANGED <<waits, static, eofbit>>

\* IsLastDecoding / IsEndpoint / EndpointDetected / EmitPartialResult
AfterAdvance(detected) ==
  /\ pc = "advance"
  /\ num_frames_decoded = NumFramesReady
  /\ IF ArrivedLastChunk \/ IsEndpoint
     THEN /\ pc' = "finish"
          /\ UNCHANGED <<segover, out, cout>>
     ELSE /\ segover' = detected
          /\ IF detected
             THEN pc' = "finish" /\ UNCHANGED <<out, cout>>
             ELSE pc' = "recv" /\ Emit(PartialLine)
  /\ UNCHANGED <<decodable, num_frames_decoded, counter, flag, hdr, err,
                 consumed, skipped, nheaders, drained, history, utt>>
  /\ UNCHANGED <<waits, static, eofbit>>

\* Mutant: the outer loop is not left after the -3 line.
EmitTermination_NoBreak ==
  /\ pc = "finish"
  /\ IsTermination
  /\ Emit(TerminationLine)
  /\ NewSession
  /\ pc' = "recv"
  /\ UNCHANGED <<counter, flag, segover, hdr, err, consumed, skipped,
                 nheaders, drained, finalized>>
  /\ UNCHANGED <<waits, static, eofbit>>

\* Mutant: the interrupted utterance is finalized before the -3 line.
EmitTermination_FinalFirst ==
  /\ pc = "finish"
  /\ IsTermination
  /\ SetStdOut(IF NoFramesDecoded
               THEN Flush(Endl(Put(StdOut, TerminationLine, 0)))
               ELSE Flush(Endl(Put(Flush(Endl(Put(StdOut, FinalLine(NBests), 0))),
                                   TerminationLine, 0))))
  /\ counter' = 0
  /\ pc' = "drain"
  /\ UNCHANGED <<decodable, num_frames_decoded, flag, segover, hdr, err,
                 consumed, skipped, nheaders, drained, history, utt>>
  /\ idle' = 0
  /\ UNCHANGED <<singal, static, eofbit>>

\* if (decoder.IsTermination()) { cout << "-3 "; break; }  then WaitForOver
EmitTermination ==
  /\ pc = "finish"
  /\ IsTermination
  /\ Emit(TerminationLine)
  /\ counter' = 0
  /\ pc' = "drain"
  /\ UNCHANGED <<decodable, num_frames_decoded, flag, segover, hdr, err,
                 consumed, skipped, nheaders, drained, history, utt>>
  /\ idle' = 0
  /\ UNCHANGED <<singal, static, eofbit>>

\* Mutant: an utterance without decoded frames ends without a line.
EmitEmptyFinal_Silent ==
  /\ pc = "finish"
  /\ ~IsTermination
  /\ NoFramesDecoded
  /\ UNCHANGED <<out, cout>>
  /\ finalized' = finalized
  /\ NewSession
  /\ pc' = "recv"
  /\ UNCHANGED <<counter, flag, segover, hdr, err, consumed, skipped,
                 nheaders, drained>>
  /\ UNCHANGED <<waits, static, eofbit>>

\* if (decoder.NumFramesDecoded() == 0) cout << "-2 "
EmitEmptyFinal ==
  /\ pc = "finish"
  /\ ~IsTermination
  /\ NoFramesDecoded
  /\ Emit(EmptyFinalLine)
  /\ finalized' = finalized
  /\ NewSession
  /\ pc' = "recv"
  /\ UNCHANGED <<counter, flag, segover, hdr, err, consumed, skipped,
                 nheaders, drained>>
  /\ UNCHANGED <<waits, static, eofbit>>

\* Mutant: the determinization option is not looked at.
GetLattice_NoCheck ==
  IF num_frames_decoded = 0 THEN "DecodedNoFrames" ELSE "ok"

\* The two KALDI_ERR of GetLattice, or "ok".
GetLattice ==
  IF num_frames_decoded = 0 THEN "DecodedNoFrames"
  ELSE IF ~determinize_lattice THEN "UnsupportedConfig"
  ELSE "ok"

\* FinalizeDecoding; GetLattice; EmitFinalResult
EmitFinal(n) ==
  /\ pc = "finish"
  /\ ~IsTermination
  /\ ~NoFramesDecoded
  /\ finalized' = finalized + 1
  /\ IF GetLattice = "ok"
     THEN /\ Emit(FinalLine(n))
          /\ NewSession
          /\ pc' = "recv"
          /\ err' = err
     ELSE /\ Abort(GetLattice)
          /\ UNCHANGED <<decodable, num_frames_decoded, out, cout, lastChunk,
                         prevFrames, utt>>
  /\ UNCHANGED <<counter, flag, segover, hdr, consumed, skipped,
                 nheaders, drained>>
  /\ UNCHANGED <<waits, static, eofbit>>

\* ------------------------------------------------------- WaitForOver
\* cin.peek() == EOF
WaitIdle ==
  /\ pc = "drain"
  /\ eofbit' = TRUE
  /\ counter' = counter + Timescale
  /\ IF counter' >= Timeout
     THEN Abort("StreamTimeout")
     ELSE pc' = pc /\ err' = err
  /\ UNCHANGED <<decodable, num_frames_decoded, flag, segover, hdr, out,
                 consumed, skipped, nheaders, drained, history, utt>>
  /\ idle' = (idle + Timescale) % IdleCap
  /\ UNCHANGED <<singal, static, cout>>

\* cin.peek() is ' ' or '\n': cin.ignore()
WaitSkipWhitespace ==
  /\ pc = "drain"
  /\ ~eofbit
  /\ skipped < MaxWs
  /\ skipped' = skipped + 1
  /\ UNCHANGED <<pc, decodable, num_frames_decoded, counter, flag, segover,
                 hdr, out, err, consumed, nheaders, drained, history, utt>>
  /\ UNCHANGED <<waits, static, eofbit, cout>>

\* Mutant: any token ends the handshake.
WaitReadToken_AnyToken(token) ==
  /\ pc = "drain"
  /\ ~eofbit
  /\ consumed' = consumed + 1
  /\ singal' = token
  /\ IF singal' = "over"
     THEN pc' = "done" /\ drained' = drained
     ELSE drained < MaxDrain /\ drained' = drained + 1 /\ pc' = "done"
  /\ UNCHANGED <<decodable, num_frames_decoded, counter, flag, segover, hdr,
                 out, err, nheaders, history, utt>>
  /\ idle' = 0
  /\ UNCHANGED <<static, eofbit, cout>>
  /\ skipped' = 0

\* cin >> singal; if (singal == "over") break;
WaitReadToken(token) ==
  /\ pc = "drain"
  /\ ~eofbit
  /\ consumed' = consumed + 1
  /\ singal' = token
  /\ IF singal' = "over"
     THEN pc' = "done" /\ drained' = drained
     ELSE drained < MaxDrain /\ drained' = drained + 1 /\ pc' = pc
  /\ UNCHANGED <<decodable, num_frames_decoded, counter, flag, segover, hdr,
                 out, err, nheaders, history, utt>>
  /\ idle' = 0
  /\ UNCHANGED <<static, eofbit, cout>>
  /\ skipped' = 0

\* ------------------------------------------------------------------ Next
Next ==
  \/ CallRecieveFrames
  \/ PollIdle
  \/ PollSkipWhitespace
  \/ ReadTermination
  \/ \E frames \in FrameCounts :
       \E payload \in Payloads(IF ValidEndpointFrames(frames) THEN frames ELSE 0) :
         ReadEndpoint(frames, payload)
  \/ \E frames \in FrameCounts :
       \E payload \in Payloads(IF ValidActivityFrames(frames) THEN frames ELSE 0) :
         ReadActivity(frames, payload)
  \/ \E f \in OtherFlags : ReadUnknownFlag(f)
  \/ BranchOnFlag
  \/ \E index \in TransitionIds : AdvanceFrame(index)
  \/ \E detected \in BOOLEAN : AfterAdvance(detected)
  \/ EmitTermination
  \/ EmitEmptyFinal
  \/ \E n \in 0..NBests : EmitFinal(n)
  \/ WaitIdle
  \/ WaitSkipWhitespace
  \/ \E token \in Tokens : WaitReadToken(token)

Spec == Init /\ [][Next]_vars

\* A stream that keeps delivering whitespace: beyond MaxWs characters only
\* the parity of their number is kept in `skipped`.
PollSkipMoreWhitespace ==
  /\ pc = "poll"
  /\ ~eofbit
  /\ skipped >= MaxWs
  /\ skipped' = MaxWs + ((skipped - MaxWs + 1) % 2)
  /\ UNCHANGED <<pc, decodable, num_frames_decoded, counter, flag, segover,
                 hdr, out, err, consumed, nheaders, drained, history, utt>>
  /\ UNCHANGED <<waits, static, eofbit, cout>>

WaitSkipMoreWhitespace ==
  /\ pc = "drain"
  /\ ~eofbit
  /\ skipped >= MaxWs
  /\ skipped' = MaxWs + ((skipped - MaxWs + 1) % 2)
  /\ UNCHANGED <<pc, decodable, num_frames_decoded, counter, flag, segover,
                 hdr, out, err, consumed, nheaders, drained, history, utt>>
  /\ UNCHANGED <<waits, static, eofbit, cout>>

\* Whether a polling loop ends does not depend on the likelihood values nor
\* on the number of candidates of a Final Result, so the stream of SpecLive
\* offers one payload per frame count and its Final Results carry NBests
\* candidates.
LivePayloads(frames) == {[p \in 1..(frames * NumPdfs) |-> (p % 3) + 1]}

NextLive ==
  \/ CallRecieveFrames
  \/ PollIdle
  \/ PollSkipWhitespace
  \/ PollSkipMoreWhitespace
  \/ ReadTermination
  \/ \E frames \in FrameCounts :
       \E payload \in LivePayloads(IF ValidEndpointFrames(frames) THEN frames ELSE 0) :
         ReadEndpoint(frames, payload)
  \/ \E frames \in FrameCounts :
       \E payload \in LivePayloads(IF ValidActivityFrames(frames) THEN frames ELSE 0) :
         ReadActivity(frames, payload)
  \/ \E f \in OtherFlags : ReadUnknownFlag(f)
  \/ BranchOnFlag
  \/ \E index \in TransitionIds : AdvanceFrame(index)
  \/ \E detected \in BOOLEAN : AfterAdvance(detected)
  \/ EmitTermination
  \/ EmitEmptyFinal
  \/ EmitFinal(NBests)
  \/ WaitIdle
  \/ WaitSkipWhitespace
  \/ WaitSkipMoreWhitespace
  \/ \E token \in Tokens : WaitReadToken(token)

\* The states in which the next step of the process waits for nobody: the
\* step neither reads the input, unless the input has ended, nor writes a
\* result line. While the input is open a polling loop goes on only when the
\* writer has put something on the stream (the process waits inside
\* cin.peek() as long as the writer is silent), and a step that writes a
\* result line ends only when stdout takes the line (the write waits while
\* stdout is a full pipe that nobody reads).
Unblocked ==
  /\ NextLive
  /\ \/ pc \in {"recv", "ret"}
     \/ pc = "advance"
          /\ (num_frames_decoded < NumFramesReady \/ ArrivedLastChunk \/ IsEndpoint)
     \/ pc = "finish" /\ ~IsTermination /\ ~NoFramesDecoded /\ GetLattice # "ok"
     \/ pc \in {"poll", "drain"} /\ eofbit

SpecLive == Init /\ [][NextLive]_vars /\ WF_vars(Unblocked)

\* The session loop over a session class built with either configuration.
SpecCfg == InitCfg /\ [][Next]_vars

\* ------------------------------------------ the provider on its own
\* The caller of RecieveFrames takes the result and may call again, whatever
\* it was; like main() it stops calling after a -3 header.
ReturnToCaller ==
  /\ pc = "ret"
  /\ ~IsTermination
  /\ pc' = "recv"
  /\ UNCHANGED <<decodable, num_frames_decoded, counter, flag, segover, hdr,
                 out, err, consumed, skipped, nheaders, drained, history, utt>>
  /\ UNCHANGED <<waits, static, eofbit, cout>>

NextProvider ==
  \/ CallRecieveFrames
  \/ PollIdle
  \/ PollSkipWhitespace
  \/ ReadTermination
  \/ \E frames \in FrameCounts :
       \E payload \in Payloads(IF ValidEndpointFrames(frames) THEN frames ELSE 0) :
         ReadEndpoint(frames, payload)
  \/ \E frames \in FrameCounts :
       \E payload \in Payloads(IF ValidActivityFrames(frames) THEN frames ELSE 0) :
         ReadActivity(frames, payload)
  \/ \E f \in OtherFlags : ReadUnknownFlag(f)
  \/ ReturnToCaller

\* One ExkaldiDecodableOnline object called by an arbitrary caller.
SpecProvider == Init /\ [][NextProvider]_vars

\* ------------------------------------- EmitFinalResult and LogLikelihood
\* fst::ScaleLattice(fst::LatticeScale(lmwt, 1.0), &clat)
ScaleLattice(clat, graphScale, acScale) ==
  [clat EXCEPT !.graph = graphScale * @, !.ac = acScale * @]

\* Mutant: a failed alignment is fatal.
EmitFinalResult_AlignFatal(clat, acwt, lmwt, wbi, alignOk) ==
  IF wbi /\ ~alignOk
  THEN <<"AlignmentFailure">>
  ELSE <<"ok", [ScaleLattice(clat, lmwt, 1) EXCEPT !.aligned = wbi]>>

\* The graph the Final Result line is computed from: rescaled by the LM
\* weight, and replaced by the aligned graph when wbi != nullptr and
\* WordAlignLattice returns true (alignOk is WordAlignLattice's answer).
EmitFinalResult(clat, acwt, lmwt, wbi, alignOk) ==
  LET scaled == ScaleLattice(clat, lmwt, 1)
  IN  IF wbi /\ alignOk
      THEN <<"ok", [scaled EXCEPT !.aligned = TRUE]>>
      ELSE <<"ok", scaled>>

\* A decodable holding one chunk, and the arguments of one EmitFinalResult.
InitEmit ==
  /\ pc = "emit"
  /\ \E b \in 0..ChunkFrames : \E frames \in 1..ChunkFrames :
       \E payload \in Payloads(frames) :
         /\ begin_frame_ = b
         /\ available_frames_ = frames
         /\ frames_ready_ = b + frames
         /\ num_frames_decoded = b
         /\ prevFrames = b
         /\ loglikes_ = StoreChunk(ZeroMatrix, frames, payload)
         /\ lastChunk = payload
         /\ hdr = <<0 - 1, frames>>
  /\ last_frame_id_ = 0 - 1
  /\ termination_ = FALSE
  /\ endpoint_ = FALSE
  /\ counter = 0
  /\ flag = TRUE
  /\ segover = FALSE
  /\ out = <<>>
  /\ err = "none"
  /\ consumed = 0
  /\ skipped = 0
  /\ nheaders = 0
  /\ drained = 0
  /\ finalized = 0
  /\ utt = 0
  /\ idle = 0
  /\ singal = ""
  /\ cout = NoText
  /\ eofbit = FALSE
  /\ determinize_lattice = TRUE
  /\ emit \in [acwt : AcousticScales, lmwt : LmScales, wbi : BOOLEAN,
                alignOk : BOOLEAN,
                clat : [graph : Costs, ac : Costs, aligned : {FALSE}],
                result : {<<>>}, query : {<<>>}, score : {<<>>}]

\* EmitFinalResult(clat, acoustic_scale, lm_scale, word_boundary_info, ...)
\* finding n candidates: `-2 ` and the candidates are written to std::cout,
\* without a newline and without a flush; `handed` tokens of the text have
\* reached stdout through a full buffer when the function returns
ApplyEmitFinalResult(n, handed) ==
  /\ pc = "emit"
  /\ emit.result = <<>>
  /\ LET r == EmitFinalResult(emit.clat, emit.acwt, emit.lmwt, emit.wbi,
                              emit.alignOk)
     IN  IF r[1] = "ok"
         THEN /\ emit' = [emit EXCEPT !.result = r]
              /\ SetStdOut(Put(StdOut, FinalLine(n), handed))
              /\ UNCHANGED <<pc, err>>
         ELSE /\ Abort(r[1])
              /\ UNCHANGED <<emit, out, cout>>
  /\ UNCHANGED <<decodable, num_frames_decoded, counter, flag, segover, hdr,
                 consumed, skipped, nheaders, drained, history, utt, waits,
                 determinize_lattice, eofbit>>

\* One LogLikelihood(frame, index) query of the search engine.
ApplyLogLikelihood(frame, index) ==
  /\ pc = "emit"
  /\ emit.score = <<>>
  /\ LET r == LogLikelihood(frame, index)
     IN  /\ emit' = [emit EXCEPT !.query = <<frame, index>>, !.score = r]
         /\ IF r[1] = "ok"
            THEN UNCHANGED <<pc, err>>
            ELSE Abort(r[1])
  /\ UNCHANGED <<decodable, num_frames_decoded, counter, flag, segover, hdr,
                 out, consumed, skipped, nheaders, drained, history, utt,
                 waits, determinize_lattice, cout, eofbit>>

\* main() after EmitFinalResult: std::cout << std::endl; std::cout.flush()
EndFinalLine ==
  /\ pc = "emit"
  /\ emit.result # <<>>
  /\ cout # NoText
  /\ SetStdOut(Flush(Endl(StdOut)))
  /\ UNCHANGED <<pc, err, decodable, num_frames_decoded, counter, flag,
                 segover, hdr, consumed, skipped, nheaders, drained, history,
                 utt, waits, static, eofbit>>

NextEmit ==
  \/ \E n \in 0..NBests : \E handed \in 0..Len(FinalLine(n)) :
       ApplyEmitFinalResult(n, handed)
  \/ EndFinalLine
  \/ \E frame \in 0..(2 * ChunkFrames) : \E index \in TransitionIds :
       ApplyLogLikelihood(frame, index)

SpecEmit == InitEmit /\ [][NextEmit]_vars

TypeOK ==
  /\ pc \in {"recv", "poll", "ret", "advance", "finish", "drain", "done",
            "aborted", "emit"}
  /\ err \in {"none", "StreamTimeout", "InvalidChunkSize", "UnknownFlag",
             "OutOfWindow", "DecodedNoFrames", "UnsupportedConfig"}
  /\ (err # "none") <=> (pc = "aborted")

\* ---------------------------------------------------------------- claims
HeaderRead == pc = "poll" /\ consumed' # consumed
TerminationLines == {k \in 1..Len(out) : out[k] = TerminationLine}
MaxFrame == (MaxChunks + 1) * (ChunkFrames + 1)

\* C1: the output holds at most one -3 line, it is the last line, it is
\* written only after the -3 header was read, and once the session loop has
\* been left after a -3 header the output ends with it.
C1_TerminationLineLast ==
  /\ Cardinality(TerminationLines) <= 1
  /\ TerminationLines # {} => (out[Len(out)] = TerminationLine /\ termination_)
  /\ (termination_ /\ pc \in {"ret", "finish"}) => TerminationLines = {}
  /\ (termination_ /\ pc \notin {"ret", "finish"}) => TerminationLines # {}
  /\ pc \in {"drain", "done"} => termination_

C1_Witness ==
  pc = "done" /\ Len(out) >= 3 /\ out[Len(out)] = TerminationLine

\* C2 as stated: a -3 header that interrupts an utterance with decoded
\* activity frames and no endpoint chunk is answered by a Final Result line
\* immediately followed by the -3 line.
C2_Original ==
  (pc \in {"drain", "done"} /\ num_frames_decoded > 0 /\ ~ArrivedLastChunk)
    => /\ Len(out) >= 2
       /\ out[Len(out)] = TerminationLine
       /\ out[Len(out) - 1][1] = 0 - 2

\* C2 amended: a -3 header that interrupts an utterance with decoded activity
\* frames and no endpoint chunk produces no Final Result for that utterance;
\* the -3 line immediately follows the utterance's last Partial Result line.
C2_InterruptedUtteranceHasNoFinal ==
  (pc \in {"drain", "done"} /\ num_frames_decoded > 0 /\ ~ArrivedLastChunk)
    => /\ Len(out) >= 2
       /\ out[Len(out)] = TerminationLine
       /\ out[Len(out) - 1] = PartialLine

C2_Witness ==
  pc = "done" /\ num_frames_decoded > 0 /\ ~ArrivedLastChunk /\ hdr = <<0 - 3>>

\* C3: an activity header whose frame count is <= 0 or above the chunk length
\* aborts with InvalidChunkSize after the two header tokens; frames_ready,
\* available_frames, the buffer and the output are untouched, and nothing is
\* written afterwards.
C3_ActivityInvalidChunkSize ==
  [][ /\ (HeaderRead /\ hdr'[1] = 0 - 1
            /\ ~(hdr'[2] > 0 /\ hdr'[2] <= ChunkFrames))
         => /\ err' = "InvalidChunkSize"
            /\ consumed' = consumed + 2
            /\ UNCHANGED <<frames_ready_, available_frames_, loglikes_, out>>
      /\ err = "InvalidChunkSize" => out' = out ]_vars

C3_Witness ==
  /\ err = "InvalidChunkSize"
  /\ hdr[1] = 0 - 1
  /\ hdr[2] > ChunkFrames
  /\ frames_ready_ > 0

\* C4 as stated: an endpoint header whose frame count is negative or above
\* the chunk length aborts with InvalidChunkSize and records no endpoint.
C4_EndpointInvalidChunkSize ==
  [][ (HeaderRead /\ hdr'[1] = 0 - 2
         /\ ~(hdr'[2] >= 0 /\ hdr'[2] <= ChunkFrames))
      => (err' = "InvalidChunkSize" /\ last_frame_id_' = 0 - 1) ]_vars

\* C5: a header flag outside {-1,-2,-3} aborts with UnknownFlag, and from
\* then on nothing is written and nothing is read.
C5_UnknownFlagAbsorbing ==
  [][ /\ (HeaderRead /\ hdr'[1] \notin {0 - 1, 0 - 2, 0 - 3})
         => (err' = "UnknownFlag" /\ pc' = "aborted")
      /\ err = "UnknownFlag" => UNCHANGED <<out, consumed, skipped, pc, err>> ]_vars

C5_Witness ==
  err = "UnknownFlag" /\ Len(out) >= 2 /\ hdr = <<5>>

\* C6: OutOfWindow never fires in the session loop; when RecieveFrames
\* returns true the window starts at the engine's decoded frame count and
\* ends at frames_ready, and every frame the engine still has to decode lies
\* in the window.
C6_NoOutOfWindow ==
  /\ err # "OutOfWindow"
  /\ (pc = "ret" /\ flag)
       => /\ begin_frame_ = num_frames_decoded
          /\ begin_frame_ + available_frames_ = frames_ready_
  /\ pc = "advance"
       => /\ begin_frame_ + available_frames_ = frames_ready_
          /\ \A f \in num_frames_decoded..(frames_ready_ - 1) :
               f >= begin_frame_ /\ f < begin_frame_ + available_frames_

C6_Witness ==
  /\ pc = "advance"
  /\ begin_frame_ > 0
  /\ num_frames_decoded > begin_frame_
  /\ num_frames_decoded < frames_ready_

\* C7: within one utterance begin_frame never decreases, and every header
\* read moves it by the frame count of the previous chunk of the utterance
\* (0 for the first chunk).
C7_BeginFrameMonotonic ==
  [][ /\ utt' = utt => begin_frame_' >= begin_frame_
      /\ HeaderRead => begin_frame_' = begin_frame_ + prevFrames ]_vars

C7_Witness ==
  /\ pc = "ret"
  /\ begin_frame_ = ChunkFrames + 1
  /\ prevFrames = 1

\* C8: a Partial Result line is written only by a loop iteration in which
\* neither the last chunk was identified nor the endpoint detector fired, and
\* never once the utterance boundary has been resolved.
C8_NoPartialAtBoundary ==
  [][ (Len(out') > Len(out) /\ out'[Len(out')] = PartialLine)
      => /\ pc = "advance"
         /\ ~ArrivedLastChunk
         /\ ~IsEndpoint
         /\ segover' = FALSE
         /\ pc' = "recv"
         /\ utt' = utt ]_vars

C8_Witness ==
  /\ pc = "finish"
  /\ ArrivedLastChunk
  /\ flag
  /\ num_frames_decoded = frames_ready_
  /\ out = <<PartialLine>>

\* C9 as stated: after a `-2 0` chunk the utterance's result is the empty
\* Final Result.
C9_Original ==
  [][ (pc = "finish" /\ hdr = <<0 - 2, 0>> /\ out' # out)
      => (out' = Append(out, EmptyFinalLine) /\ finalized' = finalized) ]_vars

\* C9 amended: a `-2 0` chunk makes RecieveFrames return false as soon as its
\* two header tokens are read, without polling and without error; the
\* utterance's result is the empty Final Result when no frame was decoded in
\* the utterance, and otherwise a Final Result built from the finalized search.
C9_EndpointZeroFrames ==
  [][ /\ (HeaderRead /\ hdr' = <<0 - 2, 0>>)
         => /\ pc' = "ret"
            /\ flag' = FALSE
            /\ err' = "none"
            /\ consumed' = consumed + 2
            /\ counter' = counter
      /\ (pc = "finish" /\ hdr = <<0 - 2, 0>> /\ out' # out)
         => IF num_frames_decoded = 0
            THEN out' = Append(out, EmptyFinalLine) /\ finalized' = finalized
            ELSE /\ \E n \in 0..NBests : out' = Append(out, FinalLine(n))
                 /\ finalized' = finalized + 1 ]_vars

C9_Witness ==
  /\ pc = "recv"
  /\ hdr = <<0 - 2, 0>>
  /\ finalized = 1
  /\ Len(out) = 2
  /\ out[1] = PartialLine
  /\ out[2] = FinalLine(1)

\* C10: inside the window LogLikelihood(f, i) is the value the chunk stored
\* last delivered at row f - begin_frame and column TransitionIdToPdf(i) in
\* row-major order, unscaled; outside the window it fails with OutOfWindow.
C10_LogLikelihoodValue ==
  \A f \in 0..MaxFrame : \A i \in TransitionIds :
    IF f >= begin_frame_ /\ f < begin_frame_ + available_frames_
    THEN LogLikelihood(f, i) =
           <<"ok", lastChunk[(f - begin_frame_) * NumPdfs + TransitionIdToPdf(i) + 1]>>
    ELSE LogLikelihood(f, i) = <<"OutOfWindow">>

C10_Witness ==
  /\ begin_frame_ > 0
  /\ available_frames_ = ChunkFrames
  /\ Len(lastChunk) = ChunkFrames * NumPdfs
  /\ lastChunk[2] # lastChunk[NumPdfs + 1]
  /\ num_frames_decoded > begin_frame_

\* C11: every RecieveFrames call that is polling eventually returns after
\* reading a header or fails with StreamTimeout; it never waits indefinitely.
\* Stated for the streams that deliver only finitely many whitespace
\* characters.
C11_CallTerminates ==
  (<>[][skipped' = skipped]_vars) => ((pc = "poll") ~> (pc # "poll"))

\* C12: StreamTimeout is raised by a RecieveFrames call only when the idle
\* time of that same call has reached the timeout: the elapsed-time counter of
\* a polling call starts at 0 and equals the idle time of the call, whatever
\* earlier calls did; after the timeout nothing is read and no line is written.
C12_TimeoutPerCall ==
  [][ /\ (pc = "recv" /\ pc' = "poll") => counter' = 0
      /\ pc' = "poll" => counter' = idle'
      /\ (pc = "poll" /\ err' = "StreamTimeout")
         => (idle' >= Timeout /\ idle < Timeout /\ out' = out)
      /\ err = "StreamTimeout"
         => UNCHANGED <<out, consumed, pc, err, finalized>> ]_vars

C12_Witness ==
  /\ err = "StreamTimeout"
  /\ ~termination_
  /\ idle >= Timeout
  /\ utt >= 1
  /\ hdr[1] = 0 - 1
  /\ out[Len(out)] = PartialLine

\* C13: once the -3 line is written the process ends normally only by reading
\* the token `over`; every other token is consumed without ending the
\* handshake and without output, and the only other exit is StreamTimeout.
C13_DrainUntilOver ==
  [][ /\ pc' \in {"drain", "done"} => out'[Len(out')] = TerminationLine
      /\ pc' = "done" => singal' = "over"
      /\ (pc = "drain" /\ pc' # "drain")
         => \/ pc' = "done" /\ singal' = "over" /\ consumed' = consumed + 1
            \/ pc' = "aborted" /\ err' = "StreamTimeout" /\ counter' >= Timeout
      /\ (pc = "drain" /\ consumed' # consumed /\ singal' # "over")
         => (pc' = "drain" /\ consumed' = consumed + 1 /\ out' = out)
      /\ (pc = "drain" /\ skipped' # skipped /\ consumed' = consumed)
         => (pc' = "drain" /\ out' = out /\ counter' = counter) ]_vars

C13_Witness ==
  /\ pc = "done"
  /\ drained >= 1
  /\ singal = "over"
  /\ consumed >= 3
  /\ out[Len(out)] = TerminationLine

\* C14: the first RecieveFrames call of every utterance finds begin_frame = 0,
\* frames_ready = 0, available_frames = 0, last_frame_id = -1, the termination
\* flag false and no decoded frame; the stream cursor is the only thing a
\* new session inherits.
C14_FreshSession ==
  [][ /\ (pc = "recv" /\ (out = <<>> \/ out[Len(out)][1] = 0 - 2))
         => /\ begin_frame_ = 0
            /\ frames_ready_ = 0
            /\ available_frames_ = 0
            /\ last_frame_id_ = 0 - 1
            /\ termination_ = FALSE
            /\ num_frames_decoded = 0
            /\ loglikes_ = ZeroMatrix
      /\ utt' # utt => (utt' = utt + 1 /\ consumed' = consumed /\ pc' = "recv") ]_vars

C14_Witness ==
  /\ pc = "recv"
  /\ utt = 2
  /\ Len(out) = 3
  /\ out[1] = PartialLine
  /\ out[3] = FinalLine(1)
  /\ consumed > 2 * (2 + NumPdfs)

\* C15: with a word-boundary aligner configured and the alignment failing,
\* EmitFinalResult raises no error and still writes the Final Result (`-2` and
\* its candidates, which main() ends with a newline and flushes), computed
\* from the graph rescaled by the LM weight and not aligned; when the
\* alignment succeeds the aligned graph is used.
C15_AlignmentFailureDegrades ==
  /\ err # "AlignmentFailure"
  /\ emit.result # <<>>
       => /\ \E n \in 0..NBests :
               \/ out = <<>> /\ cout.tail \o cout.buf = FinalLine(n)
               \/ out = <<FinalLine(n)>> /\ cout = NoText
          /\ emit.result[1] = "ok"
          /\ emit.result[2].graph = emit.lmwt * emit.clat.graph
          /\ emit.result[2].ac = emit.clat.ac
          /\ emit.result[2].aligned = (emit.wbi /\ emit.alignOk)

C15_Witness ==
  /\ emit.wbi
  /\ ~emit.alignOk
  /\ emit.lmwt = 2
  /\ emit.result = <<"ok", [graph |-> 4, ac |-> 1, aligned |-> FALSE]>>
  /\ out = <<FinalLine(1)>>

\* C16 as stated: with determinization disabled nothing is read from the input
\* and no line is written, the configuration being rejected at construction.
C16_Original ==
  ~determinize_lattice => (consumed = 0 /\ out = <<>>)

\* C16 amended: with determinization disabled the fatal error is raised by
\* GetLattice, at the first utterance boundary that is not a termination and
\* has decoded frames: chunks have been read and Partial lines may have been
\* written by then, but no Final Result built from a result graph is ever
\* written; with determinization enabled the error never occurs.
C16_RejectedAtFirstFinal ==
  [][ /\ err' = "UnsupportedConfig"
         => /\ ~determinize_lattice
            /\ pc = "finish"
            /\ ~termination_
            /\ num_frames_decoded > 0
            /\ consumed >= 2 + NumPdfs
            /\ finalized = 0
            /\ finalized' = 1
            /\ out' = out
      /\ (~determinize_lattice /\ pc = "finish" /\ ~termination_
            /\ num_frames_decoded > 0 /\ pc' # pc)
         => err' = "UnsupportedConfig"
      /\ (~determinize_lattice /\ out' # out) => finalized' = 0 ]_vars

C16_Witness ==
  /\ err = "UnsupportedConfig"
  /\ ~determinize_lattice
  /\ utt = 1
  /\ out = <<EmptyFinalLine, PartialLine>>
  /\ hdr = <<0 - 2, 0>>

\* C18: the acoustic scale changes neither a LogLikelihood score nor the graph
\* a Final Result is computed from: the score is the stored value itself, and
\* EmitFinalResult gives the same graph for every acoustic scale, its graph
\* cost multiplied by the LM weight and its acoustic cost unchanged.
C18_AcousticScaleUnused ==
  /\ (emit.score # <<>> /\ emit.score[1] = "ok")
       => emit.score[2] =
            loglikes_[emit.query[1] - begin_frame_][TransitionIdToPdf(emit.query[2])]
  /\ emit.result # <<>>
       => /\ \A a \in AcousticScales :
               EmitFinalResult(emit.clat, a, emit.lmwt, emit.wbi, emit.alignOk)
                 = emit.result
          /\ emit.result[2].ac = emit.clat.ac
          /\ emit.result[2].graph = emit.lmwt * emit.clat.graph

C18_Witness ==
  /\ emit.acwt = 2
  /\ emit.lmwt = 2
  /\ emit.score = <<"ok", 3>>
  /\ emit.query[1] > 0
  /\ emit.result # <<>>
  /\ emit.result[2].ac = 2
  /\ emit.result[2].graph = 2

\* C19: every header after which the session loop goes on is answered by
\* exactly one line before the next header is read: a Partial line for an
\* activity chunk without detected endpoint, a Final line for a step that
\* resolves the utterance boundary, the -3 line for a -3 header.
C19_OneLinePerHeader ==
  [][ /\ pc' \in {"recv", "poll"} => Len(out') = nheaders'
      /\ pc' \in {"ret", "advance", "finish"}
           => Len(out') + 1 = nheaders' + (IF termination_' THEN 1 ELSE 0)
      /\ pc' \in {"drain", "done"} => Len(out') = nheaders' + 1
      /\ out' # out
           => /\ out' = Append(out, out'[Len(out')])
              /\ IF termination_
                 THEN out'[Len(out')] = TerminationLine /\ hdr = <<0 - 3>>
                 ELSE IF hdr[1] = 0 - 1 /\ ~segover'
                 THEN out'[Len(out')] = PartialLine /\ utt' = utt
                 ELSE /\ \E n \in 0..NBests : out'[Len(out')] = FinalLine(n)
                      /\ hdr[1] = 0 - 2 \/ segover
                      /\ utt' = utt + 1 ]_vars

C19_Witness ==
  /\ pc = "done"
  /\ nheaders = 3
  /\ out = <<PartialLine, FinalLine(1), EmptyFinalLine, TerminationLine>>
  /\ finalized = 1

\* C20: at an utterance boundary that is not a termination the empty Final
\* Result is written exactly when the engine decoded no frame of the
\* utterance; otherwise the search is finalized and a Final Result built from
\* the result graph is written. GetLattice never fails with DecodedNoFrames.
C20_EmptyFinalIffNoFrames ==
  [][ /\ err' # "DecodedNoFrames"
      /\ (pc = "finish" /\ ~termination_ /\ pc' # pc)
         => /\ num_frames_decoded = 0
                 <=> (out' = Append(out, EmptyFinalLine) /\ finalized' = finalized)
            /\ num_frames_decoded # 0
                 <=> (/\ finalized' = finalized + 1
                      /\ GetLattice = "ok"
                      /\ \E n \in 0..NBests : out' = Append(out, FinalLine(n)))
            /\ pc' = "recv" ]_vars

C20_Witness ==
  /\ pc = "recv"
  /\ utt = 2
  /\ finalized = 1
  /\ hdr = <<0 - 2, 0>>
  /\ out = <<FinalLine(1), EmptyFinalLine>>

\* C21: an endpoint chunk `-2 n` with 0 < n <= chunk length ends its
\* utterance: the n frames are stored and counted, the engine decodes all of
\* them, the session reads nothing more, and the only line written for it is
\* the utterance's Final Result built from the finalized search.
C21_EndpointWithFramesTerminal ==
  [][ /\ (HeaderRead /\ hdr'[1] = 0 - 2 /\ hdr'[2] > 0 /\ hdr'[2] <= ChunkFrames)
         => /\ frames_ready_' = frames_ready_ + hdr'[2]
            /\ available_frames_' = hdr'[2]
            /\ loglikes_' = StoreChunk(loglikes_, hdr'[2], lastChunk')
            /\ last_frame_id_' = frames_ready_'
            /\ flag' = TRUE
            /\ pc' = "ret"
      /\ (last_frame_id_ # 0 - 1 /\ hdr[1] = 0 - 2 /\ hdr[2] > 0)
         => /\ consumed' = consumed
            /\ pc' \notin {"poll", "aborted"}
            /\ out' # out
                 => /\ pc = "finish"
                    /\ num_frames_decoded = frames_ready_
                    /\ finalized' = finalized + 1
                    /\ \E n \in 0..NBests : out' = Append(out, FinalLine(n))
                    /\ utt' = utt + 1 ]_vars

C21_Witness ==
  /\ pc = "recv"
  /\ hdr = <<0 - 2, ChunkFrames>>
  /\ utt = 1
  /\ finalized = 1
  /\ out = <<PartialLine, FinalLine(1)>>
  /\ consumed = 2 * (2 + ChunkFrames * NumPdfs)

\* C22: within a session last_frame_id is -1, and IsLastFrame false for every
\* f >= 0, until a -2 header is read; that header sets it to frames_ready as it
\* is after the chunk, IsLastFrame is then true for that frame only, and the
\* session never changes it again. Activity chunks and -3 leave it alone.
C22_LastFrameIdSetOnce ==
  [][ /\ (utt' = utt /\ last_frame_id_' # last_frame_id_)
         => /\ last_frame_id_ = 0 - 1
            /\ HeaderRead
            /\ hdr'[1] = 0 - 2
      /\ (HeaderRead /\ hdr'[1] = 0 - 2 /\ err' = "none")
         => last_frame_id_' = frames_ready_'
      /\ (HeaderRead /\ hdr'[1] # 0 - 2) => last_frame_id_' = 0 - 1
      /\ \A f \in 0..MaxFrame :
           IsLastFrame(f) <=> (last_frame_id_ # 0 - 1 /\ f = last_frame_id_)
      /\ ArrivedLastChunk <=> (\E f \in 0..MaxFrame : IsLastFrame(f)) ]_vars

C22_Witness ==
  /\ pc = "finish"
  /\ hdr = <<0 - 2, 1>>
  /\ begin_frame_ = ChunkFrames
  /\ last_frame_id_ = ChunkFrames + 1
  /\ IsLastFrame(frames_ready_)

\* C24 as stated: in every state of the likelihood provider the window ends
\* at or before frames_ready, so LogLikelihood accepts no frame index at or
\* beyond NumFramesReady.
C24_WindowWithinReady ==
  /\ begin_frame_ + available_frames_ <= frames_ready_
  /\ \A f \in 0..MaxFrame : \A i \in TransitionIds :
       LogLikelihood(f, i)[1] = "ok" => f < NumFramesReady

\* C23: once last_frame_id is set, a RecieveFrames call returns false at once
\* and changes nothing: no token is consumed, begin_frame, frames_ready,
\* available_frames, last_frame_id and the termination flag keep their
\* values, the call never polls and so cannot raise StreamTimeout.
C23_NoReadAfterLastChunk ==
  [][ /\ (pc = "recv" /\ last_frame_id_ # 0 - 1 /\ pc' # pc)
         => /\ pc' = "ret"
            /\ flag' = FALSE
            /\ UNCHANGED <<decodable, consumed, skipped, counter, err, hdr,
                           out>>
      /\ last_frame_id_ # 0 - 1
         => /\ pc' # "poll"
            /\ err' = "none"
            /\ UNCHANGED <<begin_frame_, frames_ready_, available_frames_,
                           last_frame_id_, termination_, consumed>> ]_vars

C23_Witness ==
  /\ pc = "ret"
  /\ flag = FALSE
  /\ hdr = <<0 - 2, ChunkFrames>>
  /\ last_frame_id_ = frames_ready_
  /\ begin_frame_ > 0
  /\ consumed = 2 * (2 + ChunkFrames * NumPdfs)

\* C25: the drain handshake always ends, by reading `over` or by
\* StreamTimeout. Stated for the streams that deliver only finitely many
\* whitespace characters and tokens.
C25_DrainTerminates ==
  (<>[][skipped' = skipped /\ consumed' = consumed]_vars)
    => ((pc = "drain") ~> (pc \in {"done", "aborted"}))

\* C26: every result line is written with its newline and flushed by the step
\* that produces it, one line per step, so nothing is buffered whenever the
\* process polls or reads its input; a new session is constructed only by the
\* step that writes the previous utterance's Final Result line, so when
\* utterance k+1 starts to read, k Final Result lines have been written.
C26_OutputBeforeNextRead ==
  [][ /\ pc' \in {"recv", "poll", "drain", "done"} => cout' = NoText
      /\ consumed' # consumed => pc \in {"poll", "drain"}
      /\ pc \in {"poll", "drain"} => (cout = NoText /\ out' = out)
      /\ out' # out
           => /\ Len(out') = Len(out) + 1
              /\ \A k \in 1..Len(out) : out'[k] = out[k]
              /\ consumed' = consumed
      /\ utt' # utt
           => /\ utt' = utt + 1
              /\ Len(out') = Len(out) + 1
              /\ out'[Len(out')][1] = 0 - 2
              /\ pc' = "recv"
      /\ pc' \in {"recv", "poll"}
           => Cardinality({k \in 1..Len(out') : out'[k][1] = 0 - 2}) = utt' ]_vars

C26_Witness ==
  /\ pc = "poll"
  /\ utt = 2
  /\ out = <<PartialLine, FinalLine(1), EmptyFinalLine>>
  /\ cout = NoText
  /\ skipped = MaxWs
  /\ consumed > 2 + NumPdfs
====
